---- MODULE Spec2Model ----
(***************************************************************************)
(* BeatBank: audio analysis (utils/dsp.py) and the audio-reactive video    *)
(* compositor (utils/visualizer.py).                                       *)
(*                                                                         *)
(* Conventions of the model                                                *)
(*  - a render time t is carried as a frame number k at a frame rate fps,  *)
(*    t = k / fps; an audio clip is n samples at sample rate sr, so that   *)
(*    duration_audio = n / sr.  Quotients are compared by cross            *)
(*    multiplication, so the arithmetic on times is exact.                 *)
(*  - RMS amplitudes are in thousandths, scale factors in 1/2000 (pulse)   *)
(*    and 1/200000 (zoom), sines in thousandths, inter-beat times in ms.   *)
(***************************************************************************)
EXTENDS Integers, Sequences, FiniteSets, TLC

VARIABLES
    lk,        \* lookup harness: the engine's audio and the last two lookups
    src,       \* the file at audio_path: can the decoder read it
    eng,       \* VisualizerEngine instance fields (set by __init__)
    feat,      \* the engine's time-indexed feature cache
    handles,   \* file handles build has opened and not closed
    pc,        \* position inside VisualizerEngine.build
    frameNo,   \* index k of the frame being generated (t = k / fps)
    fpc,       \* position inside make_frame
    fsize,     \* <<width, height>> of the frame being generated
    applied,   \* effects invoked so far on the frame being generated
    emitted,   \* frames handed to the encoder, in order
    probe,     \* size of the frame VideoClip.__init__ asks for at t = 0
    wf,        \* last call of effect_waveform: band positions, bar values
    outfile,   \* what write_videofile muxes into output_path
    exc,       \* exception that escaped build ("none" if none)
    tw,        \* two renders side by side that differ only in effects["spectrum"]
    an,        \* one call of analyze_audio: inputs, position, locals, the step
               \* that raised (if any), result, exception that escaped
    sv,        \* the API process: its event loop and the requests in flight
    ac,        \* one run of auto_chain: form fields, position, result, calls made
    pr,        \* one call of poll_runway_job: position, last response, outcome
    hc,        \* the module global _http, the clients created, the last accessor call
    sl         \* one call of safe_slug: arguments, position, value returned

vars == <<lk, src, eng, feat, handles, pc, frameNo, fpc, fsize, applied, emitted, probe, wf, outfile, exc, tw, an, sv, ac, pr, hc, sl>>
extVars == <<pr, hc, sl>>
apiVars == <<sv, ac, extVars>>
renderVars == <<src, eng, feat, handles, pc, frameNo, fpc, fsize, applied, emitted, probe, wf, outfile, exc>>

(***************************************************************************)
(* Bounds of the model                                                     *)
(***************************************************************************)
MaxAudioSec == 5        \* audio clips last 1 .. MaxAudioSec seconds
MaxDuration == 5        \* requested render durations 1 .. MaxDuration
MaxLookupFrame == 36    \* lookup harness asks for t = k / fps, k up to this
MaxBeats == 3           \* beat tracker reports at most this many beats
MaxBeatGap == 3         \* beats are at most this many grid steps apart

(***************************************************************************)
(* Integer helpers                                                         *)
(***************************************************************************)
Abs(x) == IF x < 0 THEN -x ELSE x

\* Python int(): truncation toward zero of a / b, for b > 0
Trunc(a, b) == IF a >= 0 THEN a \div b ELSE -((-a) \div b)

\* Python round(): nearest integer of a / b, ties to even, for b > 0
Round(a, b) ==
    LET q == a \div b
        r == a % b
    IN  IF 2 * r < b THEN q
        ELSE IF 2 * r > b THEN q + 1
        ELSE IF q % 2 = 0 THEN q ELSE q + 1

\* numpy.clip(i, lo, hi)
ClipWrap(i, lo, hi) == lo + ((i - lo) % (hi - lo + 1))
ClipNone(i, lo, hi) == i
Clip(i, lo, hi) == IF i < lo THEN lo ELSE IF i > hi THEN hi ELSE i

(***************************************************************************)
(* Audio as loaded by librosa.load(audio_path, sr=None)                    *)
(***************************************************************************)
SampleRate == 8000      \* native rate of the clips of the model
HopRms == 512           \* librosa.feature.rms default hop_length
NFft == 1024            \* n_fft of the spectrogram
HopStft == NFft \div 4  \* librosa.stft default hop_length = n_fft // 4
DefaultFps == 30

AudioKinds == {"silent", "tone", "beat"}

AudioChoices ==
    [n : {SampleRate * s : s \in 1..MaxAudioSec} \cup {SampleRate + 3000},
     sr : {SampleRate},
     kind : AudioKinds]

\* len(self.rms): frames of librosa.feature.rms(y)[0] (centered framing)
RmsLen(audio) == 1 + audio.n \div HopRms

\* self.spectrogram.shape: (1 + n_fft/2) bins by (1 + n // hop) frames
SpecBins == 1 + NFft \div 2
SpecFrames(audio) == 1 + audio.n \div HopStft

\* self.rms[i] in thousandths
RmsValue(audio, i) ==
    CASE audio.kind = "silent" -> 0
      [] audio.kind = "tone"   -> 100
      [] OTHER                 -> IF i % 4 = 0 THEN 300 ELSE 40

(***************************************************************************)
(* Time-to-feature lookup: get_rms_at_time, get_spectrum_at_time           *)
(*   idx = int((t / self.duration_audio) * length); idx = clip(idx, 0, length-1) *)
(***************************************************************************)
\* int((t / duration_audio) * length) with t = k / fps, duration_audio = n / sr
RawIndexRound(k, fps, audio, length) ==
    Round(k * audio.sr * length, fps * audio.n)
RawIndex(k, fps, audio, length) ==
    Trunc(k * audio.sr * length, fps * audio.n)

RmsIndex(k, fps, audio) ==
    Clip(RawIndex(k, fps, audio, RmsLen(audio)), 0, RmsLen(audio) - 1)

SpectrumFrame(k, fps, audio) ==
    Clip(RawIndex(k, fps, audio, SpecFrames(audio)), 0, SpecFrames(audio) - 1)

get_rms_at_time(k, fps, audio) == RmsValue(audio, RmsIndex(k, fps, audio))

FeatureLen(feature, audio) ==
    IF feature = "rms" THEN RmsLen(audio) ELSE SpecFrames(audio)

NoCall == [feature |-> "none", k |-> 0, idx |-> 0]

LookupInit ==
    lk \in [audio : {a \in AudioChoices :
                        /\ a.kind = "tone"
                        /\ a.n \in {SampleRate, SampleRate + 3000, SampleRate * MaxAudioSec}},
            fps : {DefaultFps}, cur : {NoCall}, prev : {NoCall}]

LookupIdle ==
    lk = [audio |-> [n |-> SampleRate, sr |-> SampleRate, kind |-> "silent"],
          fps |-> DefaultFps, cur |-> NoCall, prev |-> NoCall]

CallGetRmsAtTime(k) ==
    lk' = [lk EXCEPT !.prev = lk.cur,
                     !.cur = [feature |-> "rms", k |-> k,
                              idx |-> RmsIndex(k, lk.fps, lk.audio)]]

CallGetSpectrumAtTime(k) ==
    lk' = [lk EXCEPT !.prev = lk.cur,
                     !.cur = [feature |-> "spectrum", k |-> k,
                              idx |-> SpectrumFrame(k, lk.fps, lk.audio)]]

LookupTimes == (-2)..MaxLookupFrame

NextLookup ==
    /\ \E k \in LookupTimes : CallGetRmsAtTime(k) \/ CallGetSpectrumAtTime(k)
    /\ UNCHANGED <<renderVars, tw, an, apiVars>>

(***************************************************************************)
(* VisualizerEngine.__init__                                               *)
(***************************************************************************)
EffectNames == {"pulse", "zoom", "vhs", "waveform", "spectrum"}
BaseW == 1280
BaseH == 720

\* nothing written yet
NoFile == [written |-> FALSE, audio_samples |-> 0, frames |-> 0]

\* the feature cache before and after the precomputation of __init__:
\* lengths of onset_env and rms, shape of the spectrogram
NoFeatures == [onset_env |-> 0, rms |-> 0, spectrogram |-> <<0, 0>>]
FeatureCache(audio) ==
    [onset_env |-> 1 + audio.n \div HopRms,
     rms |-> RmsLen(audio),
     spectrogram |-> <<SpecBins, SpecFrames(audio)>>]

RenderAudio ==
    {a \in AudioChoices : a.n \in {SampleRate, SampleRate * MaxAudioSec}}

EngineInit ==
    /\ eng \in [duration : 1..MaxDuration,
                fps : {DefaultFps},
                effects : [EffectNames -> BOOLEAN],
                audio : RenderAudio]
    /\ src \in [decodable : BOOLEAN]
    /\ feat = NoFeatures
    /\ handles = {}
    /\ pc = "new"
    /\ frameNo = 0
    /\ fpc = "idle"
    /\ fsize = <<0, 0>>
    /\ applied = <<>>
    /\ emitted = <<>>
    /\ probe = <<0, 0>>
    /\ wf = [called |-> FALSE, band |-> <<>>, values |-> <<>>]
    /\ outfile = NoFile
    /\ exc = "none"

EngineIdle ==
    /\ eng = [duration |-> 1, fps |-> DefaultFps,
              effects |-> [e \in EffectNames |-> FALSE],
              audio |-> [n |-> SampleRate, sr |-> SampleRate, kind |-> "silent"]]
    /\ src = [decodable |-> TRUE]
    /\ feat = NoFeatures
    /\ handles = {}
    /\ pc = "new"
    /\ frameNo = 0
    /\ fpc = "idle"
    /\ fsize = <<0, 0>>
    /\ applied = <<>>
    /\ emitted = <<>>
    /\ probe = <<0, 0>>
    /\ wf = [called |-> FALSE, band |-> <<>>, values |-> <<>>]
    /\ outfile = NoFile
    /\ exc = "none"

(***************************************************************************)
(* numpy.sin in thousandths, argument in milliradians (Taylor, 4 terms)    *)
(***************************************************************************)
PiMilli == 3142

SinQuadrant(x) ==       \* 0 <= x <= PiMilli / 2
    LET x2 == (x * x) \div 1000
        x3 == (x2 * x) \div 1000
        x5 == (x3 * x2) \div 1000
        x7 == (x5 * x2) \div 1000
    IN  x - x3 \div 6 + x5 \div 120 - x7 \div 5040

SinMilli(x) ==          \* x >= 0
    LET r == x % (2 * PiMilli)
        h == IF r > PiMilli THEN r - PiMilli ELSE r
        q == IF 2 * h > PiMilli THEN PiMilli - h ELSE h
        s == Clip(SinQuadrant(q), 0, 1000)
    IN  IF r > PiMilli THEN -s ELSE s

(***************************************************************************)
(* The effects                                                             *)
(***************************************************************************)
\* moviepy resize(factor): new size is int(factor * w), int(factor * h)
Scale(size, num, den) == <<(size[1] * num) \div den, (size[2] * num) \div den>>

\* effect_pulse: strength = 1 + rms * 2.5, in 1/2000
PulseStrength(k, fps, audio) == 2000 + 5 * get_rms_at_time(k, fps, audio)
effect_pulse(size, k, fps, audio) == Scale(size, PulseStrength(k, fps, audio), 2000)

\* effect_zoom: zoom = 1.02 + 0.005 * sin(t * 0.7), in 1/200000
ZoomFactor(k, fps) == 204000 + SinMilli((700 * k) \div fps)
effect_zoom(size, k, fps) == Scale(size, ZoomFactor(k, fps), 200000)

\* effect_vhs: shift = int(5 * sin(t * 25)); crop(x1=shift, y1=0) keeps the
\* columns pic[:, shift:w], and a negative shift counts from the right edge
VhsShift(k, fps) == Trunc(5 * SinMilli((25000 * k) \div fps), 1000)
effect_vhs(size, k, fps) ==
    LET shift == VhsShift(k, fps)
    IN  <<IF shift >= 0 THEN size[1] - shift ELSE -shift, size[2]>>

\* self.spectrogram[bin, frame], in thousandths
SpecValue(audio, frame, bin) ==
    CASE audio.kind = "silent" -> 0
      [] audio.kind = "tone"   -> IF bin = 64 THEN 900 ELSE 0
      [] OTHER                 -> (7 * bin + frame) % 500

\* effect_waveform: band = np.linspace(0, len(spectrum), bars).astype(int)
Bars == 100
Band(len, bars) == [i \in 1..bars |-> ((i - 1) * len) \div (bars - 1)]

\* spectrum[band] raises IndexError when a position is outside the column
BandInRange(band, len) == \A i \in 1..Len(band) : band[i] >= 0 /\ band[i] < len

RECURSIVE MaxOver(_, _)
MaxOver(f, i) == IF i = 1 THEN f[1]
                 ELSE LET m == MaxOver(f, i - 1) IN IF f[i] > m THEN f[i] ELSE m

\* values = spectrum[band] / np.max(spectrum[band] + 1e-6), in thousandths
BarValues(audio, frame, band) ==
    LET picked == [i \in 1..Len(band) |-> SpecValue(audio, frame, band[i])]
        top == MaxOver(picked, Len(band))
    IN  [i \in 1..Len(band) |-> (picked[i] * 1000000) \div (top * 1000 + 1)]

(***************************************************************************)
(* VisualizerEngine.build                                                  *)
(*   pc: "constructed" -> "probe" -> "audio" -> "write" -> "done", or      *)
(*       "raised" when an exception escapes build                          *)
(*   VideoClip(make_frame, duration) asks make_frame for the frame at t=0  *)
(*   to learn the clip's size; write_videofile then asks for the frame of  *)
(*   every t in np.arange(0, duration, 1.0 / fps).                         *)
(***************************************************************************)
\* len(np.arange(0, duration, 1.0 / fps)) for integer duration and fps
FrameCount(duration, fps) == duration * fps

\* self.effects.get(name)
ToggleSpectrumAsOverlay(effects, name) ==
    effects[name] \/ (name = "waveform" /\ effects["spectrum"])
Toggle(effects, name) == effects[name]

\* order of the stages of make_frame
StageAfterSwapped(stage) ==
    CASE stage = "idle"     -> "zoom"
      [] stage = "zoom"     -> "pulse"
      [] stage = "pulse"    -> "vhs"
      [] stage = "vhs"      -> "waveform"
      [] stage = "waveform" -> "ret"
StageAfter(stage) ==
    CASE stage = "idle"     -> "pulse"
      [] stage = "pulse"    -> "zoom"
      [] stage = "zoom"     -> "vhs"
      [] stage = "vhs"      -> "waveform"
      [] stage = "waveform" -> "ret"

\* self.y, self.sr = librosa.load(audio_path, sr=None): where __init__ goes on
LoadOutcomeSwallowed(decodable) == "loaded"
LoadOutcome(decodable) == IF decodable THEN "loaded" ELSE "ctor_raised"

\* __init__, lines 27-35: the fields are set, then the audio is decoded; a
\* decode error leaves __init__ as an exception and no instance is returned
CtorLoad ==
    /\ pc = "new"
    /\ pc' = LoadOutcome(src.decodable)
    /\ exc' = IF pc' = "ctor_raised" THEN "DecodeError" ELSE exc
    /\ UNCHANGED <<src, feat, handles, eng, frameNo, fpc, fsize, applied, emitted,
                   probe, wf, outfile>>

\* __init__, lines 38-40: onset envelope, RMS envelope, magnitude spectrogram
CtorPrecompute ==
    /\ pc = "loaded"
    /\ feat' = FeatureCache(eng.audio)
    /\ pc' = "constructed"
    /\ UNCHANGED <<src, handles, eng, frameNo, fpc, fsize, applied, emitted,
                   probe, wf, outfile, exc>>

\* bg = ImageClip(self.image_path).resize((1280, 720)); VideoClip(make_frame, ...)
BuildStart ==
    /\ pc = "constructed"
    /\ pc' = "probe"
    /\ UNCHANGED <<src, feat, handles, eng, frameNo, fpc, fsize, applied, emitted, probe, wf, outfile, exc>>

\* make_frame(t): frame = bg.get_frame(t); frame_clip = ImageClip(frame)
MakeFrameStart ==
    /\ fpc = "idle"
    /\ \/ pc = "probe"
       \/ pc = "write" /\ frameNo < FrameCount(eng.duration, eng.fps)
    /\ fsize' = <<BaseW, BaseH>>
    /\ applied' = <<>>
    /\ fpc' = StageAfter("idle")
    /\ UNCHANGED <<src, feat, handles, eng, pc, frameNo, emitted, probe, wf, outfile, exc>>

MakeFramePulse ==
    /\ fpc = "pulse"
    /\ IF Toggle(eng.effects, "pulse")
       THEN /\ fsize' = effect_pulse(fsize, frameNo, eng.fps, eng.audio)
            /\ applied' = Append(applied, "pulse")
       ELSE UNCHANGED <<fsize, applied>>
    /\ fpc' = StageAfter("pulse")
    /\ UNCHANGED <<src, feat, handles, eng, pc, frameNo, emitted, probe, wf, outfile, exc>>

MakeFrameZoom ==
    /\ fpc = "zoom"
    /\ IF Toggle(eng.effects, "zoom")
       THEN /\ fsize' = effect_zoom(fsize, frameNo, eng.fps)
            /\ applied' = Append(applied, "zoom")
       ELSE UNCHANGED <<fsize, applied>>
    /\ fpc' = StageAfter("zoom")
    /\ UNCHANGED <<src, feat, handles, eng, pc, frameNo, emitted, probe, wf, outfile, exc>>

MakeFrameVhs ==
    /\ fpc = "vhs"
    /\ IF Toggle(eng.effects, "vhs")
       THEN /\ fsize' = effect_vhs(fsize, frameNo, eng.fps)
            /\ applied' = Append(applied, "vhs")
       ELSE UNCHANGED <<fsize, applied>>
    /\ fpc' = StageAfter("vhs")
    /\ UNCHANGED <<src, feat, handles, eng, pc, frameNo, emitted, probe, wf, outfile, exc>>

\* frame = frame_clip.get_frame(t); overlay = self.effect_waveform(t, w, h);
\* frame = (0.7 * frame + 0.3 * overlay).astype(np.uint8)
MakeFrameWaveform ==
    /\ fpc = "waveform"
    /\ IF Toggle(eng.effects, "waveform")
       THEN LET band == Band(SpecBins, Bars)
                col == SpectrumFrame(frameNo, eng.fps, eng.audio)
            IN  /\ applied' = Append(applied, "waveform")
                /\ IF BandInRange(band, SpecBins)
                   THEN /\ wf' = [called |-> TRUE, band |-> band,
                                  values |-> BarValues(eng.audio, col, band)]
                        /\ fpc' = StageAfter("waveform")
                        /\ UNCHANGED <<pc, exc>>
                   ELSE /\ wf' = [called |-> TRUE, band |-> band, values |-> <<>>]
                        /\ fpc' = "idle"
                        /\ pc' = "raised"
                        /\ exc' = "IndexError"
       ELSE /\ fpc' = StageAfter("waveform")
            /\ UNCHANGED <<applied, wf, pc, exc>>
    /\ UNCHANGED <<src, feat, handles, eng, frameNo, fsize, emitted, probe, outfile>>

\* return frame: to VideoClip.__init__ (the probe) or to the encoder
MakeFrameReturn ==
    /\ fpc = "ret"
    /\ fpc' = "idle"
    /\ IF pc = "probe"
       THEN /\ probe' = fsize
            /\ pc' = "audio"
            /\ UNCHANGED <<frameNo, emitted>>
       ELSE /\ emitted' = Append(emitted, [k |-> frameNo, size |-> fsize,
                                           applied |-> applied])
            /\ frameNo' = frameNo + 1
            /\ UNCHANGED <<probe, pc>>
    /\ UNCHANGED <<src, feat, handles, eng, fsize, applied, wf, outfile, exc>>

\* what becomes of build when a call inside make_frame raises: nothing in
\* make_frame or build catches it
FrameFailureSkipped(p) == [pc |-> p, exc |-> "none", skip |-> IF p = "write" THEN 1 ELSE 0]
FrameFailure(p) == [pc |-> "raised", exc |-> "FrameError", skip |-> 0]

\* a call inside make_frame raises (frame access, resize, crop, blend); the
\* frame is dropped with the stack, write_videofile's writer is closed by its
\* context manager
MakeFrameRaise ==
    /\ fpc \notin {"idle", "ret"}
    /\ fpc' = "idle"
    /\ fsize' = <<0, 0>>
    /\ applied' = <<>>
    /\ pc' = FrameFailure(pc).pc
    /\ exc' = FrameFailure(pc).exc
    /\ frameNo' = frameNo + FrameFailure(pc).skip
    /\ handles' = IF pc' = "raised" THEN handles \ {"video_writer"} ELSE handles
    /\ UNCHANGED <<src, feat, eng, emitted, probe, wf, outfile>>

\* samples of the audio track of the output: audio = AudioFileClip(audio_path)
\* is attached as it is, final = video.set_audio(audio)
AudioTrack(audio, duration) == audio.n

BuildSetAudioClamping ==
    /\ pc = "audio"
    /\ outfile' = [outfile EXCEPT !.audio_samples = AudioTrack(eng.audio, eng.duration)]
    /\ handles' = handles \cup {"audio_reader", "video_writer"}
    /\ pc' = "write"
    /\ eng' = [eng EXCEPT !.duration =
                  IF eng.duration * eng.audio.sr > eng.audio.n
                  THEN eng.audio.n \div eng.audio.sr ELSE eng.duration]
    /\ UNCHANGED <<src, feat, frameNo, fpc, fsize, applied, emitted, probe, wf, exc>>

\* audio = AudioFileClip(self.audio_path); final = video.set_audio(audio);
\* write_videofile first writes final.audio to a temporary file, then opens
\* the video writer and asks for the frames
BuildSetAudio ==
    /\ pc = "audio"
    /\ outfile' = [outfile EXCEPT !.audio_samples = AudioTrack(eng.audio, eng.duration)]
    /\ handles' = handles \cup {"audio_reader", "video_writer"}
    /\ pc' = "write"
    /\ UNCHANGED <<src, feat, eng, frameNo, fpc, fsize, applied, emitted, probe, wf, exc>>

\* write_videofile has consumed every frame time; return output_path
BuildReturn ==
    /\ pc = "write"
    /\ fpc = "idle"
    /\ frameNo >= FrameCount(eng.duration, eng.fps)
    /\ pc' = "done"
    /\ outfile' = [outfile EXCEPT !.written = TRUE, !.frames = Len(emitted)]
    /\ handles' = handles \ {"video_writer"}
    /\ UNCHANGED <<src, feat, eng, frameNo, fpc, fsize, applied, emitted, probe, wf, exc>>

(***************************************************************************)
(* analyze_audio (utils/dsp.py)                                            *)
(***************************************************************************)
HopLength == 512        \* librosa default hop_length of beat_track / frames_to_time

RECURSIVE SqrtBetween(_, _, _)
SqrtBetween(x, lo, hi) ==       \* largest r in lo..hi with r * r <= x
    IF lo >= hi THEN lo
    ELSE LET mid == (lo + hi + 1) \div 2
         IN  IF mid * mid <= x THEN SqrtBetween(x, mid, hi)
                               ELSE SqrtBetween(x, lo, mid - 1)
ISqrt(x) == SqrtBetween(x, 0, 46340)

RECURSIVE SumSeq(_, _)
SumSeq(f, i) == IF i = 0 THEN 0 ELSE f[i] + SumSeq(f, i - 1)

\* librosa.frames_to_time(beat_frames, sr=sr), in ms
FramesToTime(frames, sr) ==
    [i \in 1..Len(frames) |-> (frames[i] * HopLength * 1000) \div sr]

\* np.diff
Diff(x) == [i \in 1..(Len(x) - 1) |-> x[i + 1] - x[i]]

\* np.std (population standard deviation), rounded down to the unit of x
Std(x) ==
    LET m == Len(x)
        sq == [i \in 1..m |-> x[i] * x[i]]
        num == m * SumSeq(sq, m) - SumSeq(x, m) * SumSeq(x, m)
    IN  ISqrt(num \div (m * m))

\* tempo_stability, in thousandths: 1 - std(diffs) if len(beat_frames) > 1 else 0
TempoStabilityOffByOne(beat_frames, sr) ==
    IF Len(beat_frames) > 2
    THEN 1000 - Std(Diff(FramesToTime(beat_frames, sr)))
    ELSE 0
TempoStability(beat_frames, sr) ==
    IF Len(beat_frames) > 1
    THEN 1000 - Std(Diff(FramesToTime(beat_frames, sr)))
    ELSE 0

\* the RMS envelope of the clip and its summaries, in thousandths
RmsSeq(audio) == [i \in 1..RmsLen(audio) |-> RmsValue(audio, i - 1)]
RECURSIVE MinOver(_, _)
MinOver(f, i) == IF i = 1 THEN f[1]
                 ELSE LET m == MinOver(f, i - 1) IN IF f[i] < m THEN f[i] ELSE m
EnergyRms(audio) == SumSeq(RmsSeq(audio), RmsLen(audio)) \div RmsLen(audio)
DynamicRange(audio) ==
    MaxOver(RmsSeq(audio), RmsLen(audio)) - MinOver(RmsSeq(audio), RmsLen(audio))

\* mean spectral centroid in Hz
Brightness(audio) ==
    CASE audio.kind = "silent" -> 0
      [] audio.kind = "tone"   -> 500
      [] OTHER                 -> 1800

\* tempo reported by the beat tracker for the detected beats
Tempo(beat_frames) == IF Len(beat_frames) = 0 THEN 0 ELSE 120

KEY_MAP_FromA == <<"A", "A#", "B", "C", "C#", "D", "D#", "E", "F", "F#", "G", "G#">>
KEY_MAP == <<"C", "C#", "D", "D#", "E", "F", "F#", "G", "G#", "A", "A#", "B">>

\* np.argmax: first position of the maximum, counted from 0
ArgMax(v) ==
    CHOOSE i \in 1..Len(v) :
        /\ \A j \in 1..Len(v) : v[j] <= v[i]
        /\ \A j \in 1..(i - 1) : v[j] < v[i]

\* what the handler of the try block makes of a failing step
ExceptNarrow(step) ==
    IF step = "load"
    THEN [result |-> [error |-> step], escaped |-> "none"]
    ELSE [result |-> [pending |-> TRUE], escaped |-> step]
Except(step) == [result |-> [error |-> step], escaped |-> "none"]

\* inputs of a call: the clip, what the beat tracker finds, the mean chroma
FirstBeat == 2
MinBeatGap == 7
RECURSIVE BeatSeqs(_)
BeatSeqs(m) ==
    IF m = 0 THEN {<<>>}
    ELSE IF m = 1 THEN {<<FirstBeat>>}
    ELSE {Append(b, b[Len(b)] + g) :
            b \in BeatSeqs(m - 1), g \in MinBeatGap..(MinBeatGap + MaxBeatGap - 1)}

ChromaChoices ==
    {[i \in 1..12 |-> IF i = p THEN 1000 ELSE 300] : p \in 1..12}
    \cup {[i \in 1..12 |-> 0]}
    \cup {[i \in 1..12 |-> IF i \in {4, 9} THEN 800 ELSE 100]}

NoLocals == [bpm |-> 0, tempo_stability |-> 0, energy_rms |-> 0, brightness |-> 0,
             dynamic_range |-> 0, key_index |-> 0, key_confidence |-> 0,
             duration_sec |-> 0]

AnalyzeIdle ==
    an = [pc |-> "idle", audio |-> [n |-> SampleRate, sr |-> SampleRate, kind |-> "silent"],
          beats |-> <<>>, chroma |-> [i \in 1..12 |-> 0], loc |-> NoLocals,
          failed |-> "none", result |-> [pending |-> TRUE], escaped |-> "none"]

AnalyzeInit ==
    an \in [pc : {"load"},
            audio : {a \in AudioChoices : a.n = 2 * SampleRate},
            beats : UNION {BeatSeqs(m) : m \in 0..MaxBeats},
            chroma : ChromaChoices,
            loc : {NoLocals},
            failed : {"none"},
            result : {[pending |-> TRUE]},
            escaped : {"none"}]

\* a step of the try block raises: control goes to the except clause
Raise(step) ==
    an' = [an EXCEPT !.pc = "returned",
                     !.failed = step,
                     !.result = Except(step).result,
                     !.escaped = Except(step).escaped]

\* y, sr = librosa.load(...); duration_sec = librosa.get_duration(y=y, sr=sr)
AnLoad ==
    /\ an.pc = "load"
    /\ \/ an' = [an EXCEPT !.pc = "beat_track",
                           !.loc.duration_sec = (an.audio.n * 1000) \div an.audio.sr]
       \/ Raise("load")

\* tempo, beat_frames = librosa.beat.beat_track(y=y, sr=sr); bpm = float(tempo)
AnBeatTrack ==
    /\ an.pc = "beat_track"
    /\ \/ an' = [an EXCEPT !.pc = "stability", !.loc.bpm = Tempo(an.beats)]
       \/ Raise("beat_track")

AnStability ==
    /\ an.pc = "stability"
    /\ an' = [an EXCEPT !.pc = "rms",
                        !.loc.tempo_stability = TempoStability(an.beats, an.audio.sr)]

\* rms = librosa.feature.rms(y=y); energy_rms = float(np.mean(rms))
AnRms ==
    /\ an.pc = "rms"
    /\ \/ an' = [an EXCEPT !.pc = "centroid", !.loc.energy_rms = EnergyRms(an.audio)]
       \/ Raise("rms")

\* centroid = librosa.feature.spectral_centroid(...); brightness = mean
AnCentroid ==
    /\ an.pc = "centroid"
    /\ \/ an' = [an EXCEPT !.pc = "dynamic_range",
                           !.loc.brightness = Brightness(an.audio)]
       \/ Raise("centroid")

AnDynamicRange ==
    /\ an.pc = "dynamic_range"
    /\ an' = [an EXCEPT !.pc = "chroma",
                        !.loc.dynamic_range = DynamicRange(an.audio)]

\* chroma_mean = np.mean(chroma_stft(...), axis=1); argmax and max of it
AnChroma ==
    /\ an.pc = "chroma"
    /\ \/ an' = [an EXCEPT !.pc = "key",
                           !.loc.key_index = ArgMax(an.chroma) - 1,
                           !.loc.key_confidence = an.chroma[ArgMax(an.chroma)]]
       \/ Raise("chroma")

\* detected_key = KEY_MAP[key_index]; return {...}
AnKey ==
    /\ an.pc = "key"
    /\ IF an.loc.key_index + 1 \in DOMAIN KEY_MAP
       THEN an' = [an EXCEPT !.pc = "returned",
                             !.result = [bpm |-> an.loc.bpm,
                                         key |-> KEY_MAP[an.loc.key_index + 1],
                                         key_confidence |-> an.loc.key_confidence,
                                         energy_rms |-> an.loc.energy_rms,
                                         brightness |-> an.loc.brightness,
                                         dynamic_range |-> an.loc.dynamic_range,
                                         tempo_stability |-> an.loc.tempo_stability,
                                         duration_sec |-> an.loc.duration_sec]]
       ELSE Raise("key")

NextAnalyze ==
    /\ \/ AnLoad
       \/ AnBeatTrack
       \/ AnStability
       \/ AnRms
       \/ AnCentroid
       \/ AnDynamicRange
       \/ AnChroma
       \/ AnKey
    /\ UNCHANGED <<lk, renderVars, tw, apiVars>>

(***************************************************************************)
(* Two renders side by side: same image, audio, duration, fps and toggles  *)
(* except effects["spectrum"]; both take the same steps and meet the same  *)
(* failures of the environment                                             *)
(***************************************************************************)
\* make_frame(t) as a whole: size of the frame it returns, the effects it
\* invoked, and whether effect_waveform raised
MakeFrame(effects, k, fps, audio) ==
    LET s0 == <<BaseW, BaseH>>
        s1 == IF Toggle(effects, "pulse") THEN effect_pulse(s0, k, fps, audio) ELSE s0
        s2 == IF Toggle(effects, "zoom") THEN effect_zoom(s1, k, fps) ELSE s1
        s3 == IF Toggle(effects, "vhs") THEN effect_vhs(s2, k, fps) ELSE s2
        overlay == Toggle(effects, "waveform")
    IN  [size |-> s3,
         applied |-> (IF Toggle(effects, "pulse") THEN <<"pulse">> ELSE <<>>)
                     \o (IF Toggle(effects, "zoom") THEN <<"zoom">> ELSE <<>>)
                     \o (IF Toggle(effects, "vhs") THEN <<"vhs">> ELSE <<>>)
                     \o (IF overlay THEN <<"waveform">> ELSE <<>>),
         raised |-> overlay /\ ~BandInRange(Band(SpecBins, Bars), SpecBins)]

\* one step of build at the granularity of whole frames; fail: a call inside
\* the frame raises
BuildStep(e, run, fail) ==
    LET f == MakeFrame(e.effects, run.frameNo, e.fps, e.audio)
        error == IF f.raised THEN "IndexError" ELSE "FrameError"
    IN  CASE run.pc = "constructed" -> [run EXCEPT !.pc = "probe"]
          [] run.pc = "probe" ->
                IF f.raised \/ fail
                THEN [run EXCEPT !.pc = FrameFailure("probe").pc, !.exc = error]
                ELSE [run EXCEPT !.pc = "write"]
          [] run.pc = "write" /\ run.frameNo < FrameCount(e.duration, e.fps) ->
                IF f.raised \/ fail
                THEN [run EXCEPT !.pc = FrameFailure("write").pc, !.exc = error]
                ELSE [run EXCEPT !.frameNo = run.frameNo + 1,
                                 !.emitted = Append(run.emitted,
                                     [k |-> run.frameNo, size |-> f.size,
                                      applied |-> f.applied])]
          [] run.pc = "write" -> [run EXCEPT !.pc = "done"]
          [] OTHER -> run

NoRun == [pc |-> "constructed", frameNo |-> 0, emitted |-> <<>>, exc |-> "none"]
FlipSpectrum(e) == [e EXCEPT !.effects["spectrum"] = ~e.effects["spectrum"]]

TwinInit ==
    \E e \in [duration : 1..MaxDuration, fps : {DefaultFps},
              effects : [EffectNames -> BOOLEAN], audio : RenderAudio] :
        tw = [a |-> NoRun, b |-> NoRun, ea |-> e, eb |-> FlipSpectrum(e)]

TwinIdle ==
    tw = [a |-> NoRun, b |-> NoRun,
          ea |-> [duration |-> 1, fps |-> DefaultFps,
                  effects |-> [e \in EffectNames |-> FALSE],
                  audio |-> [n |-> SampleRate, sr |-> SampleRate, kind |-> "silent"]],
          eb |-> [duration |-> 1, fps |-> DefaultFps,
                  effects |-> [e \in EffectNames |-> FALSE],
                  audio |-> [n |-> SampleRate, sr |-> SampleRate, kind |-> "silent"]]]

TwinStep ==
    /\ tw.a.pc \notin {"done", "raised"} \/ tw.b.pc \notin {"done", "raised"}
    /\ \E fail \in BOOLEAN :
          tw' = [tw EXCEPT !.a = BuildStep(tw.ea, tw.a, fail),
                           !.b = BuildStep(tw.eb, tw.b, fail)]

NextTwin ==
    /\ TwinStep
    /\ UNCHANGED <<lk, renderVars, an, apiVars>>

(***************************************************************************)
(* utils/storage.py: safe_slug, on strings as sequences of characters      *)
(***************************************************************************)
UpperCase == <<"A", "B", "C", "D", "E", "F", "G", "H", "I", "J", "K", "L", "M",
               "N", "O", "P", "Q", "R", "S", "T", "U", "V", "W", "X", "Y", "Z">>
LowerCase == <<"a", "b", "c", "d", "e", "f", "g", "h", "i", "j", "k", "l", "m",
               "n", "o", "p", "q", "r", "s", "t", "u", "v", "w", "x", "y", "z">>
Digits == {"0", "1", "2", "3", "4", "5", "6", "7", "8", "9"}
Whitespace == {" ", "\t", "\n"}
Range(f) == {f[i] : i \in DOMAIN f}

\* str.lower()
LowerChar(c) ==
    IF c \in Range(UpperCase)
    THEN LowerCase[CHOOSE i \in DOMAIN UpperCase : UpperCase[i] = c]
    ELSE c
Lower(s) == [i \in DOMAIN s |-> LowerChar(s[i])]

\* str.strip(chars)
RECURSIVE LStrip(_, _)
LStrip(s, chars) ==
    IF s # <<>> /\ Head(s) \in chars THEN LStrip(Tail(s), chars) ELSE s
RECURSIVE RStrip(_, _)
RStrip(s, chars) ==
    IF s # <<>> /\ s[Len(s)] \in chars
    THEN RStrip(SubSeq(s, 1, Len(s) - 1), chars) ELSE s
Strip(s, chars) == RStrip(LStrip(s, chars), chars)

\* re.sub(r"[^a-z0-9]+", "_", s)
IsSlugChar(c) == c \in Range(LowerCase) \cup Digits
RECURSIVE SubNonAlnum(_)
SubNonAlnum(s) ==
    IF s = <<>> THEN <<>>
    ELSE IF IsSlugChar(Head(s)) THEN <<Head(s)>> \o SubNonAlnum(Tail(s))
    ELSE <<"_">> \o SubNonAlnum(LStrip(s, {c \in Range(s) : ~IsSlugChar(c)}))

\* re.sub(r"_+", "_", s)
RECURSIVE SubUnderscores(_)
SubUnderscores(s) ==
    IF s = <<>> THEN <<>>
    ELSE IF Head(s) = "_" THEN <<"_">> \o SubUnderscores(LStrip(s, {"_"}))
    ELSE <<Head(s)>> \o SubUnderscores(Tail(s))

\* s[:max_len], for max_len >= 0
Prefix(s, max_len) ==
    SubSeq(s, 1, IF Len(s) < max_len THEN Len(s) ELSE max_len)

DefaultMaxLen == 60
Untitled == <<"u", "n", "t", "i", "t", "l", "e", "d", "_">>

\* hex: what uuid.uuid4().hex[:6] yields when the string has no slug character
safe_slug(str, max_len, hex) ==
    LET s1 == Lower(Strip(str, Whitespace))
        s2 == SubNonAlnum(s1)
        s3 == Strip(SubUnderscores(s2), {"_"})
    IN  IF s3 # <<>> THEN Prefix(s3, max_len) ELSE Untitled \o hex

(***************************************************************************)
(* backend/main.py: the API process.  Handlers are coroutines on one event *)
(* loop; a handler keeps the loop until it awaits something that suspends. *)
(***************************************************************************)
Requests == {1, 2}
Titles == {<<"a">>, <<" ", "A", "!">>, <<"a", "-", "b">>, <<"!">>}
\* uuid.uuid4().hex[:6]: six hexadecimal digits
HexChoices == {<<"0", "0", "0", "0", "0", "0">>, <<"a", "1", "b", "2", "c", "3">>}

\* form fields of POST /api/video, and of POST /api/auto as far as its
\* visualizer stage reads them (auto_chain passes waveform=True)
RequestChoices ==
    [kind : {"video"}, title : Titles, duration : {1, MaxDuration},
     audio_n : {SampleRate, SampleRate * MaxAudioSec}, waveform : BOOLEAN]
    \cup
    [kind : {"auto"}, title : Titles, duration : {1, MaxDuration},
     audio_n : {SampleRate, SampleRate * MaxAudioSec}, waveform : {TRUE}]

NoEngine == [duration |-> 0, out_path |-> <<>>]
NewTask(r) ==
    [req |-> r, pc |-> "arrived", parked |-> FALSE, engine |-> NoEngine,
     result |-> "none"]

ServerInit ==
    \E rs \in [Requests -> RequestChoices] :
        sv = [loop |-> 0, tasks |-> [i \in Requests |-> NewTask(rs[i])]]

ServerIdle ==
    sv = [loop |-> 0,
          tasks |-> [i \in Requests |->
              NewTask([kind |-> "video", title |-> <<"a">>, duration |-> 1,
                       audio_n |-> SampleRate, waveform |-> FALSE])]]

\* the positions of a handler at which it gives the loop back: auto_chain at
\* its awaits of the music and AI-video calls, which wait on HTTP responses;
\* generate_visualizer has no await, and auto_chain awaits it as a plain
\* coroutine
SuspendsDuringBuild(at) == at \in {"stages", "building"}
Suspends(at) == at = "stages"

Running(i) == sv.loop = i /\ ~sv.tasks[i].parked

\* the loop picks a request that has arrived or whose awaited call finished
Resume(i) ==
    LET t == sv.tasks[i]
    IN  /\ sv.loop = 0
        /\ t.pc = "arrived" \/ t.parked
        /\ sv' = [loop |-> i,
                  tasks |-> [sv.tasks EXCEPT ![i] =
                      [t EXCEPT !.parked = FALSE,
                                !.pc = CASE t.pc = "arrived" /\ t.req.kind = "video" -> "entered"
                                         [] t.pc = "arrived" -> "stages"
                                         [] t.pc = "stages" -> "entered"
                                         [] OTHER -> t.pc]]]

\* an await that suspends
Yield(i) ==
    /\ Running(i)
    /\ Suspends(sv.tasks[i].pc)
    /\ sv' = [loop |-> 0, tasks |-> [sv.tasks EXCEPT ![i].parked = TRUE]]

\* auto_chain reaches its visualizer stage without having been suspended
AutoStagesInline(i) ==
    /\ Running(i)
    /\ sv.tasks[i].pc = "stages"
    /\ sv' = [sv EXCEPT !.tasks[i].pc = "entered"]

\* slug = safe_slug(title); out_path = VID_DIR/<slug>.mp4;
\* engine = VisualizerEngine(..., duration=duration, ...)
Construct(i) ==
    LET t == sv.tasks[i]
    IN  /\ Running(i)
        /\ t.pc = "entered"
        /\ \E hex \in HexChoices, decodable \in BOOLEAN :
              sv' = [sv EXCEPT !.tasks[i] =
                  IF LoadOutcome(decodable) = "loaded"
                  THEN [t EXCEPT !.pc = "constructed",
                                 !.engine = [duration |-> t.req.duration,
                                             out_path |-> safe_slug(t.req.title, DefaultMaxLen, hex)]]
                  ELSE [t EXCEPT !.pc = "failed"]]

\* engine.build(out_path) starts writing
BuildBegin(i) ==
    /\ Running(i)
    /\ sv.tasks[i].pc = "constructed"
    /\ sv' = [sv EXCEPT !.tasks[i].pc = "building"]

TaskEffects(r) ==
    [e \in EffectNames |->
        IF e = "waveform" THEN r.waveform ELSE r.kind = "auto" /\ e \in {"pulse", "zoom"}]
TaskAudio(r) == [n |-> r.audio_n, sr |-> SampleRate, kind |-> "tone"]

\* engine.build(out_path) ends: by returning, or by an exception
BuildEnd(i) ==
    LET t == sv.tasks[i]
        raises == MakeFrame(TaskEffects(t.req), 0, DefaultFps, TaskAudio(t.req)).raised
    IN  /\ Running(i)
        /\ t.pc = "building"
        /\ \E fail \in BOOLEAN :
              sv' = [sv EXCEPT !.tasks[i].pc = IF raises \/ fail THEN "failed" ELSE "built"]

\* return {"status": "success", ...} / raise HTTPException(500); in auto_chain
\* the exception is logged and the handler ends
Respond(i) ==
    LET t == sv.tasks[i]
    IN  /\ Running(i)
        /\ t.pc \in {"built", "failed"}
        /\ sv' = [loop |-> 0,
                  tasks |-> [sv.tasks EXCEPT ![i] =
                      [t EXCEPT !.pc = "responded",
                                !.result = IF t.pc = "built" THEN "success" ELSE "error"]]]

NextServer ==
    /\ \E i \in Requests :
          \/ Resume(i)
          \/ Yield(i)
          \/ AutoStagesInline(i)
          \/ Construct(i)
          \/ BuildBegin(i)
          \/ BuildEnd(i)
          \/ Respond(i)
    /\ UNCHANGED <<lk, renderVars, tw, an, ac, extVars>>

(***************************************************************************)
(* backend/main.py: auto_chain, POST /api/auto, one stage per action       *)
(***************************************************************************)
None == "None"

\* the two variants of the API in the repository
Variants == {"backend/main.py", "apps/api/main.py"}
Backend(a) == a.req.variant = "backend/main.py"

\* form fields of POST /api/auto, in either variant of the API
AutoRequests ==
    [variant : Variants,
     do_metadata : BOOLEAN, do_image : BOOLEAN, do_music : BOOLEAN,
     do_visualizer : BOOLEAN, do_ai_video : BOOLEAN,
     audio_path : {None, "audio.mp3"}, image_path : {None, "image.png"}]

\* result = {...}  (apps/api/main.py has no ai_video_path and no dsp key: they
\* stay None here)
NewResult(r) ==
    [metadata |-> None, image_path |-> r.image_path,
     audio_paths |-> IF r.audio_path # None THEN <<r.audio_path>> ELSE None,
     video_path |-> None, ai_video_path |-> None, dsp |-> None]

\* failed: stages whose callee failed; final_inserts: inserts into `beats`
\* attempted by auto_chain itself
NewAuto(r) ==
    [req |-> r, pc |-> "metadata", result |-> NewResult(r), calls |-> <<>>,
     failed |-> {}, final_inserts |-> 0, status |-> 0,
     response |-> [status |-> "pending", result |-> None]]

AutoInit == \E r \in AutoRequests : ac = NewAuto(r)

AutoIdle ==
    ac = NewAuto([variant |-> "backend/main.py",
                  do_metadata |-> FALSE, do_image |-> FALSE, do_music |-> FALSE,
                  do_visualizer |-> FALSE, do_ai_video |-> FALSE,
                  audio_path |-> None, image_path |-> None])

\* an HTTPException leaves auto_chain: the client gets its status code
RaiseToClient(callee, code) ==
    ac' = [ac EXCEPT !.pc = "raised", !.status = code,
                     !.calls = Append(ac.calls, callee)]

\* 1) metadata
AcMetadata ==
    /\ ac.pc = "metadata"
    /\ IF ac.req.do_metadata
       THEN \E ok \in BOOLEAN :
               IF ok
               THEN ac' = [ac EXCEPT !.pc = "image", !.result.metadata = "meta",
                                     !.calls = Append(ac.calls, "generate_metadata")]
               ELSE RaiseToClient("generate_metadata", 500)
       ELSE ac' = [ac EXCEPT !.pc = "image"]

\* 2) image generation
AcImage ==
    /\ ac.pc = "image"
    /\ IF ac.req.do_image /\ ac.req.image_path = None
       THEN \E ok \in BOOLEAN :
               IF ok
               THEN ac' = [ac EXCEPT !.pc = "music", !.result.image_path = "generated.png",
                                     !.calls = Append(ac.calls, "generate_image")]
               ELSE RaiseToClient("generate_image", 500)
       ELSE ac' = [ac EXCEPT !.pc = "music"]

\* the stage after music: DSP analysis in backend/main.py, the visualizer in
\* apps/api/main.py
AfterMusic(a) == IF Backend(a) THEN "dsp" ELSE "visualizer"

\* 3) music generation
AcMusic ==
    /\ ac.pc = "music"
    /\ IF ac.req.do_music /\ ac.req.audio_path = None
       THEN \E ok \in BOOLEAN :
               IF ok
               THEN ac' = [ac EXCEPT !.pc = AfterMusic(ac),
                                     !.result.audio_paths = <<"generated.mp3">>,
                                     !.calls = Append(ac.calls, "generate_music")]
               ELSE RaiseToClient("generate_music", 500)
       ELSE ac' = [ac EXCEPT !.pc = AfterMusic(ac)]

\* what result["dsp"] holds after stage 4: analyze_audio reports a failure by
\* returning {"error": ...} (utils/dsp.py:74-75) and never raises, so the
\* except branch of stage 4, which would store None, is not taken
DspField(analysis) ==
    IF analysis = "failed" THEN "error" ELSE "features"

\* 4) DSP analysis (backend/main.py)
AcDsp ==
    /\ ac.pc = "dsp"
    /\ IF ac.result.audio_paths # None
       THEN \E analysis \in {"ok", "failed"} :
               ac' = [ac EXCEPT !.pc = "ai_video", !.result.dsp = DspField(analysis),
                                !.failed = IF analysis = "failed"
                                           THEN ac.failed \cup {"dsp"} ELSE ac.failed,
                                !.calls = Append(ac.calls, "analyze_audio")]
       ELSE ac' = [ac EXCEPT !.pc = "ai_video"]

\* 5) AI video (backend/main.py): ai_res.get("ai_video_final_path"), or the
\* except branch
AcAiVideo ==
    /\ ac.pc = "ai_video"
    /\ IF ac.req.do_ai_video
       THEN \E ok \in BOOLEAN :
               ac' = [ac EXCEPT !.pc = "visualizer",
                                !.result.ai_video_path = IF ok THEN "ai_video.mp4" ELSE None,
                                !.failed = IF ok THEN ac.failed ELSE ac.failed \cup {"ai_video"},
                                !.calls = Append(ac.calls, "create_ai_video_with_audio")]
       ELSE ac' = [ac EXCEPT !.pc = "visualizer"]

\* the toggles auto_chain of backend/main.py passes to generate_visualizer
AutoEffects ==
    [e \in EffectNames |-> e \in {"waveform", "pulse", "zoom"}]

\* 6) visualizer.  backend/main.py: a failure of generate_visualizer is
\* logged, video_path is left as it was.  apps/api/main.py: the call is not
\* guarded, its HTTPException(500) goes to the client
AcVisualizer ==
    LET raises == Backend(ac) /\
                  MakeFrame(AutoEffects, 0, DefaultFps,
                            [n |-> SampleRate, sr |-> SampleRate, kind |-> "tone"]).raised
    IN  /\ ac.pc = "visualizer"
        /\ IF /\ ac.req.do_visualizer
              /\ ac.result.image_path # None
              /\ ac.result.audio_paths # None
           THEN \E fail \in BOOLEAN :
                   IF raises \/ fail
                   THEN IF Backend(ac)
                        THEN ac' = [ac EXCEPT !.pc = "end",
                                        !.failed = ac.failed \cup {"visualizer"},
                                        !.calls = Append(ac.calls, "generate_visualizer")]
                        ELSE RaiseToClient("generate_visualizer", 500)
                   ELSE ac' = [ac EXCEPT !.pc = "end",
                                   !.result.video_path = "video.mp4",
                                   !.calls = Append(ac.calls, "generate_visualizer")]
           ELSE ac' = [ac EXCEPT !.pc = "end"]

\* the end of the function.  backend/main.py: the body ends after stage 6
\* (the block under "7) SAVE TO SUPABASE" is at module level, outside the
\* function), so the handler returns None.  apps/api/main.py: one insert is
\* attempted, its failure is logged, and {"status": "success", **result} is
\* returned
AcEnd ==
    /\ ac.pc = "end"
    /\ ac' = IF Backend(ac)
             THEN [ac EXCEPT !.pc = "returned", !.status = 200,
                             !.response = [status |-> None, result |-> None]]
             ELSE [ac EXCEPT !.pc = "returned", !.status = 200,
                             !.final_inserts = ac.final_inserts + 1,
                             !.response = [status |-> "success", result |-> ac.result]]

NextAuto ==
    /\ \/ AcMetadata
       \/ AcImage
       \/ AcMusic
       \/ AcDsp
       \/ AcAiVideo
       \/ AcVisualizer
       \/ AcEnd
    /\ UNCHANGED <<lk, renderVars, tw, an, sv, extVars>>

(***************************************************************************)
(* backend/providers/video_runway.py: poll_runway_job                      *)
(***************************************************************************)
\* values of the "status" / "state" field the endpoint may send
StatusWords ==
    {<<"s", "u", "c", "c", "e", "e", "d", "e", "d">>,
     <<"c", "o", "m", "p", "l", "e", "t", "e", "d">>,
     <<"f", "i", "n", "i", "s", "h", "e", "d">>,
     <<"f", "a", "i", "l", "e", "d">>,
     <<"e", "r", "r", "o", "r">>,
     <<"c", "a", "n", "c", "e", "l", "e", "d">>,
     <<"r", "u", "n", "n", "i", "n", "g">>,
     <<"p", "e", "n", "d", "i", "n", "g">>,
     <<"S", "u", "c", "c", "e", "e", "d", "e", "d">>,
     <<"F", "A", "I", "L", "E", "D">>,
     <<>>}

VideoUrl == "https://cdn/video.mp4"
OutputUrl == "https://cdn/output.mp4"

\* a field of the JSON object: <<>> when the key is missing (or null), <<v>>
\* when it holds v
Optional(S) == {<<>>} \cup {<<v>> : v \in S}

\* answers to GET /generations/{job_id}: a transport error or an error status
\* (both httpx.HTTPError), a body that is not JSON, or a JSON object
JsonBodies ==
    [kind : {"json"},
     status : Optional(StatusWords),
     state : Optional({<<"p", "r", "o", "c", "e", "s", "s", "i", "n", "g">>, <<"s", "u", "c", "c", "e", "e", "d", "e", "d">>}),
     output : {[type |-> "none", video |-> None],
               [type |-> "dict", video |-> VideoUrl],
               [type |-> "dict", video |-> None],
               [type |-> "str", video |-> None]},
     output_url : {None, "", OutputUrl}]
NoBody == [kind |-> "none", status |-> <<>>, state |-> <<>>,
           output |-> [type |-> "none", video |-> None], output_url |-> None]
Responses ==
    JsonBodies \cup {[NoBody EXCEPT !.kind = k] :
                        k \in {"transport_error", "status_error", "not_json"}}

\* (data.get("status") or data.get("state") or "").lower()
Or(a, b) == IF a # <<>> /\ a[1] # <<>> THEN a ELSE b
JobStatus(data) == Lower(Or(Or(data.status, data.state), <<(<<>>)>>)[1])

\* (data.get("output") or {}).get("video") if isinstance(data.get("output"),
\* dict) else data.get("output_url")
IsDict(v) == v.type = "dict"
JobOutputUrl(data) == IF IsDict(data.output) THEN data.output.video ELSE data.output_url

FinishedWords == {<<"s", "u", "c", "c", "e", "e", "d", "e", "d">>, <<"c", "o", "m", "p", "l", "e", "t", "e", "d">>, <<"f", "i", "n", "i", "s", "h", "e", "d">>}
FailedWords == {<<"f", "a", "i", "l", "e", "d">>, <<"e", "r", "r", "o", "r">>, <<"c", "a", "n", "c", "e", "l", "e", "d">>}

\* what one pass of the loop body does with the answer r
PollOutcomeReturnsWithoutUrl(r) ==
    CASE r.kind \in {"transport_error", "status_error"} ->
            [pc |-> "sleep", ret |-> None, exc |-> "none"]
      [] r.kind = "not_json" ->
            [pc |-> "raised", ret |-> None, exc |-> "ValueError"]
      [] JobStatus(r) \in FinishedWords ->
            [pc |-> "returned", ret |-> JobOutputUrl(r), exc |-> "none"]
      [] JobStatus(r) \in FailedWords ->
            [pc |-> "raised", ret |-> None, exc |-> "HTTPException(502)"]
      [] OTHER -> [pc |-> "sleep", ret |-> None, exc |-> "none"]
PollOutcome(r) ==
    CASE r.kind \in {"transport_error", "status_error"} ->
            [pc |-> "sleep", ret |-> None, exc |-> "none"]
      [] r.kind = "not_json" ->
            [pc |-> "raised", ret |-> None, exc |-> "ValueError"]
      [] JobStatus(r) \in FinishedWords ->
            IF JobOutputUrl(r) \in {None, ""}
            THEN [pc |-> "raised", ret |-> None, exc |-> "HTTPException(502)"]
            ELSE [pc |-> "returned", ret |-> JobOutputUrl(r), exc |-> "none"]
      [] JobStatus(r) \in FailedWords ->
            [pc |-> "raised", ret |-> None, exc |-> "HTTPException(502)"]
      [] OTHER -> [pc |-> "sleep", ret |-> None, exc |-> "none"]

NewPoll(ready) ==
    [key_ready |-> ready, pc |-> "start", last |-> NoBody, ret |-> None,
     exc |-> "none"]
PollInit == \E ready \in BOOLEAN : pr = NewPoll(ready)
PollIdle == pr = NewPoll(TRUE)

\* _assert_ready()
PollAssertReady ==
    /\ pr.pc = "start"
    /\ pr' = IF pr.key_ready
             THEN [pr EXCEPT !.pc = "request"]
             ELSE [pr EXCEPT !.pc = "raised", !.exc = "HTTPException(500)"]

\* one pass of `while True`: the GET, and what follows from its answer
PollOnce ==
    /\ pr.pc = "request"
    /\ \E r \in Responses :
          LET o == PollOutcome(r)
          IN  pr' = [pr EXCEPT !.last = r, !.pc = o.pc, !.ret = o.ret,
                               !.exc = o.exc]

\* await asyncio.sleep(RUNWAY_POLL_SECONDS) ends; back to the top of the loop
PollSleepDone ==
    /\ pr.pc = "sleep"
    /\ pr' = [pr EXCEPT !.pc = "request"]

NextPoll ==
    /\ \/ PollAssertReady
       \/ PollOnce
       \/ PollSleepDone
    /\ UNCHANGED <<lk, renderVars, tw, an, sv, ac, hc, sl>>

(***************************************************************************)
(* backend/main.py and apps/api/main.py: the shared httpx.AsyncClient      *)
(***************************************************************************)
MaxClients == 4

\* the accessor is http_client in backend/main.py, ensure_http in
\* apps/api/main.py; _startup and _shutdown are the same in both
Accessor(variant) ==
    IF variant = "backend/main.py" THEN "http_client" ELSE "ensure_http"

NoCallYet == [kind |-> "none", fn |-> "none", client |-> 0, open |-> FALSE]

\* _http: Optional[httpx.AsyncClient] = None  (0 stands for None; clients are
\* numbered in the order they were created)
NewHttp(variant) ==
    [variant |-> variant, http |-> 0, clients |-> <<>>, last |-> NoCallYet]
HttpInit == \E v \in Variants : hc = NewHttp(v)
HttpIdle == hc = NewHttp("backend/main.py")

\* _startup: _http = httpx.AsyncClient(timeout=600)
Startup ==
    /\ Len(hc.clients) < MaxClients
    /\ hc' = [hc EXCEPT !.clients = Append(hc.clients, "open"),
                        !.http = Len(hc.clients) + 1]

\* _shutdown: if _http: await _http.aclose()
Shutdown ==
    /\ hc' = IF hc.http # 0
             THEN [hc EXCEPT !.clients[hc.http] = "closed"]
             ELSE hc

\* a request handler calls the accessor: raise RuntimeError if not _http,
\* else return _http
AccessorCall ==
    /\ hc' = [hc EXCEPT !.last =
                 IF hc.http = 0
                 THEN [kind |-> "RuntimeError", fn |-> Accessor(hc.variant),
                       client |-> 0, open |-> FALSE]
                 ELSE [kind |-> "returned", fn |-> Accessor(hc.variant),
                       client |-> hc.http, open |-> hc.clients[hc.http] = "open"]]

NextHttp ==
    /\ \/ Startup
       \/ Shutdown
       \/ AccessorCall
    /\ UNCHANGED <<lk, renderVars, tw, an, sv, ac, pr, sl>>

(***************************************************************************)
(* utils/storage.py: calls of safe_slug on arbitrary strings               *)
(***************************************************************************)
MaxSlugInput == 4
MaxSlugLen == 3
SlugAlphabet == {"a", "B", "7", "_", " ", "-"}

RECURSIVE Strings(_)
Strings(n) ==
    IF n = 0 THEN {<<>>}
    ELSE Strings(n - 1) \cup
         {Append(w, c) : w \in {v \in Strings(n - 1) : Len(v) = n - 1}, c \in SlugAlphabet}

SlugInit ==
    \E str \in Strings(MaxSlugInput), n \in (1..MaxSlugLen) \cup {DefaultMaxLen},
       hex \in HexChoices :
        sl = [s |-> str, max_len |-> n, hex |-> hex, pc |-> "call", out |-> <<>>]
SlugIdle ==
    sl = [s |-> <<"a">>, max_len |-> DefaultMaxLen,
          hex |-> <<"0", "0", "0", "0", "0", "0">>, pc |-> "call", out |-> <<>>]

CallSafeSlug ==
    /\ sl.pc = "call"
    /\ sl' = [sl EXCEPT !.pc = "done", !.out = safe_slug(sl.s, sl.max_len, sl.hex)]

NextSlug ==
    /\ CallSafeSlug
    /\ UNCHANGED <<lk, renderVars, tw, an, sv, ac, pr, hc>>

NextRender ==
    /\ \/ CtorLoad
       \/ CtorPrecompute
       \/ BuildStart
       \/ MakeFrameStart
       \/ MakeFramePulse
       \/ MakeFrameZoom
       \/ MakeFrameVhs
       \/ MakeFrameWaveform
       \/ MakeFrameReturn
       \/ MakeFrameRaise
       \/ BuildSetAudio
       \/ BuildReturn
    /\ UNCHANGED <<lk, tw, an, apiVars>>

Init == EngineInit /\ LookupIdle /\ AnalyzeIdle /\ TwinIdle /\ ServerIdle /\ AutoIdle /\ PollIdle /\ HttpIdle /\ SlugIdle
Spec == Init /\ [][NextRender]_vars

InitLookup == LookupInit /\ EngineIdle /\ AnalyzeIdle /\ TwinIdle /\ ServerIdle /\ AutoIdle /\ PollIdle /\ HttpIdle /\ SlugIdle
SpecLookup == InitLookup /\ [][NextLookup]_vars

InitAnalyze == AnalyzeInit /\ EngineIdle /\ LookupIdle /\ TwinIdle /\ ServerIdle /\ AutoIdle /\ PollIdle /\ HttpIdle /\ SlugIdle

InitTwin == TwinInit /\ EngineIdle /\ LookupIdle /\ AnalyzeIdle /\ ServerIdle /\ AutoIdle /\ PollIdle /\ HttpIdle /\ SlugIdle
SpecTwin == InitTwin /\ [][NextTwin]_vars

InitServer == ServerInit /\ EngineIdle /\ LookupIdle /\ AnalyzeIdle /\ TwinIdle /\ AutoIdle /\ PollIdle /\ HttpIdle /\ SlugIdle
SpecServer == InitServer /\ [][NextServer]_vars

InitAuto == AutoInit /\ EngineIdle /\ LookupIdle /\ AnalyzeIdle /\ TwinIdle /\ ServerIdle /\ PollIdle /\ HttpIdle /\ SlugIdle
SpecAuto == InitAuto /\ [][NextAuto]_vars

InitPoll == PollInit /\ EngineIdle /\ LookupIdle /\ AnalyzeIdle /\ TwinIdle /\ ServerIdle /\ AutoIdle /\ HttpIdle /\ SlugIdle
SpecPoll == InitPoll /\ [][NextPoll]_vars
\* the event loop keeps running the coroutine: a step that is possible is taken
SpecPollFair == SpecPoll /\ WF_vars(NextPoll)

InitHttp == HttpInit /\ EngineIdle /\ LookupIdle /\ AnalyzeIdle /\ TwinIdle /\ ServerIdle /\ AutoIdle /\ PollIdle /\ SlugIdle
SpecHttp == InitHttp /\ [][NextHttp]_vars

InitSlug == SlugInit /\ EngineIdle /\ LookupIdle /\ AnalyzeIdle /\ TwinIdle /\ ServerIdle /\ AutoIdle /\ PollIdle /\ HttpIdle
SpecSlug == InitSlug /\ [][NextSlug]_vars
SpecAnalyze == InitAnalyze /\ [][NextAnalyze]_vars

(***************************************************************************)
(* Properties of the time-to-feature lookup (SpecLookup)                   *)
(***************************************************************************)
LookupDone == lk.cur.feature # "none"
CurLen == FeatureLen(lk.cur.feature, lk.audio)
\* (t / duration_audio) * length = CurNum / CurDen
CurNum == lk.cur.k * lk.audio.sr * CurLen
CurDen == lk.fps * lk.audio.n
InAudio(k) == k >= 0 /\ k * lk.audio.sr <= lk.fps * lk.audio.n

\* C2, as stated: the lookup uses the index round((t / total_audio_duration) * L)
\* clamped to [0, L-1], the nearest analysis frame.
C2_NearestFrameIndex ==
    LookupDone =>
        lk.cur.idx = (LET r == Round(CurNum, CurDen)
                      IN  IF r < 0 THEN 0 ELSE IF r > CurLen - 1 THEN CurLen - 1 ELSE r)

\* C2, amended: the lookup uses the index int((t / total_audio_duration) * L),
\* the quotient truncated toward zero and not rounded, clamped to [0, L-1]:
\* the analysis frame that contains t, not the nearest one.
C2_TruncatedFrameIndex ==
    LookupDone =>
        /\ lk.cur.idx \in 0..(CurLen - 1)
        /\ \/ CurNum < CurDen /\ lk.cur.idx = 0
           \/ CurNum >= CurLen * CurDen /\ lk.cur.idx = CurLen - 1
           \/ /\ lk.cur.idx * CurDen <= CurNum
              /\ CurNum < (lk.cur.idx + 1) * CurDen

C2_Witness ==
    /\ lk.cur.feature = "rms"
    /\ lk.cur.k > 0 /\ InAudio(lk.cur.k)
    /\ lk.cur.idx + 1 < CurLen
    /\ 2 * (CurNum - lk.cur.idx * CurDen) > CurDen

\* C3: the index used by get_rms_at_time and get_spectrum_at_time is always in
\* [0, feature_length - 1], also for t beyond the end of the audio.
C3_IndexInRange ==
    LookupDone => lk.cur.idx >= 0 /\ lk.cur.idx <= CurLen - 1

C3_Witness ==
    /\ lk.cur.feature = "spectrum"
    /\ lk.cur.k * lk.audio.sr > lk.fps * lk.audio.n
    /\ CurNum > CurLen * CurDen
    /\ lk.cur.idx = CurLen - 1

\* C4: for two lookups of the same feature at times t1 < t2 within
\* [0, total_audio_duration], the index for t1 is <= the index for t2.
C4_LookupMonotonic ==
    (/\ LookupDone
     /\ lk.prev.feature = lk.cur.feature
     /\ InAudio(lk.prev.k) /\ InAudio(lk.cur.k))
    => /\ lk.prev.k < lk.cur.k => lk.prev.idx <= lk.cur.idx
       /\ lk.cur.k < lk.prev.k => lk.cur.idx <= lk.prev.idx

C4_Witness ==
    /\ lk.cur.feature = "rms" /\ lk.prev.feature = "rms"
    /\ InAudio(lk.prev.k)
    /\ lk.prev.k < lk.cur.k
    /\ lk.cur.k * lk.audio.sr = lk.fps * lk.audio.n
    /\ lk.prev.idx < lk.cur.idx

(***************************************************************************)
(* Properties of a render (Spec)                                           *)
(***************************************************************************)
EffectOrder == <<"pulse", "zoom", "vhs", "waveform">>
IsEnabled(e) == eng.effects[e]
EnabledInOrder == SelectSeq(EffectOrder, IsEnabled)
IsPrefix(a, b) == Len(a) <= Len(b) /\ \A i \in 1..Len(a) : a[i] = b[i]

\* C5: on every frame the effects that run are exactly the enabled ones among
\* pulse, zoom, vhs, waveform, in that order, each at most once: what has run
\* so far is always an initial part of the enabled effects in order, and a
\* frame is returned only after all of them have run.
C5_EffectOrder ==
    /\ IsPrefix(applied, EnabledInOrder)
    /\ fpc = "ret" => applied = EnabledInOrder
    /\ \A i \in 1..Len(emitted) : emitted[i].applied = EnabledInOrder

C5_Witness ==
    /\ applied = <<"pulse", "vhs", "waveform">>
    /\ ~eng.effects["zoom"]
    /\ Len(emitted) = 0

AllTogglesOff == \A e \in EffectNames : ~eng.effects[e]

\* length in ms of the file at output_path: that of its longest stream
VideoMs == (outfile.frames * 1000) \div eng.fps
AudioMs == (outfile.audio_samples * 1000) \div eng.audio.sr
FileMs == IF AudioMs > VideoMs THEN AudioMs ELSE VideoMs

\* C6: with every toggle false, a finished build has emitted exactly
\* round(duration * fps) frames, the frames k = 0, 1, ... with k / fps in
\* [0, duration), and the output video lasts duration to within one frame
\* interval.
C6_FrameCountAndDuration ==
    (pc = "done" /\ AllTogglesOff) =>
        /\ Len(emitted) = Round(eng.duration * eng.fps, 1)
        /\ \A i \in 1..Len(emitted) :
              emitted[i].k = i - 1 /\ emitted[i].k < eng.duration * eng.fps
        /\ \A k \in 0..(eng.duration * eng.fps - 1) :
              \E i \in 1..Len(emitted) : emitted[i].k = k
        /\ Abs(FileMs - eng.duration * 1000) * eng.fps <= 1000

OnlyPulse == \A e \in EffectNames : eng.effects[e] <=> (e = "pulse")

\* C7: 5-second clip, duration 5, fps 30, only pulse: a finished build has
\* emitted exactly 150 frames, and every emitted frame has the 1280x720
\* dimensions of the base frame.
C7_PulseKeepsDimensions ==
    (/\ OnlyPulse
     /\ eng.duration = 5 /\ eng.fps = 30
     /\ eng.audio.n = 5 * eng.audio.sr)
    => /\ pc = "done" => Len(emitted) = 150
       /\ \A i \in 1..Len(emitted) : emitted[i].size = <<BaseW, BaseH>>

ColumnNotAllZero ==
    \E b \in 0..(SpecBins - 1) :
        SpecValue(eng.audio, SpectrumFrame(frameNo, eng.fps, eng.audio), b) # 0

C9_BandInsideColumn ==
    wf.called =>
        /\ Len(wf.band) = Bars
        /\ \A i \in 1..Len(wf.band) : wf.band[i] >= 0 /\ wf.band[i] <= SpecBins - 1

(***************************************************************************)
(* Properties of analyze_audio (SpecAnalyze)                               *)
(***************************************************************************)
FeatureFields == {"bpm", "key", "key_confidence", "energy_rms", "brightness",
                  "dynamic_range", "tempo_stability", "duration_sec"}

\* C1: analyze_audio never raises: if a step failed the call returns a record
\* whose only key is error, holding the failure; otherwise it returns a record
\* with exactly the eight feature fields.
C1_NeverRaises ==
    /\ an.escaped = "none"
    /\ an.failed # "none" => an.pc = "returned"
    /\ an.pc = "returned" =>
          IF an.failed # "none"
          THEN DOMAIN an.result = {"error"} /\ an.result.error = an.failed
          ELSE DOMAIN an.result = FeatureFields

C1_Witness ==
    /\ an.pc = "returned"
    /\ an.failed = "chroma"
    /\ DOMAIN an.result = {"error"}

\* inter-beat intervals of the call's beats, in ms
BeatGapMs(i) ==
    (an.beats[i + 1] * HopLength * 1000) \div an.audio.sr
    - (an.beats[i] * HopLength * 1000) \div an.audio.sr
NumGaps == Len(an.beats) - 1
RECURSIVE GapSum(_)
GapSum(i) == IF i = 0 THEN 0 ELSE BeatGapMs(i) + GapSum(i - 1)
RECURSIVE GapSquareSum(_)
GapSquareSum(i) == IF i = 0 THEN 0 ELSE BeatGapMs(i) * BeatGapMs(i) + GapSquareSum(i - 1)
\* s is the standard deviation of the gaps, rounded down to a ms:
\* s^2 <= mean(d^2) - mean(d)^2 < (s + 1)^2
IsGapStd(s) ==
    LET m == NumGaps
        v == m * GapSquareSum(m) - GapSum(m) * GapSum(m)
    IN  s >= 0 /\ s * s * m * m <= v /\ v < (s + 1) * (s + 1) * m * m

ExpectedStability(ts) ==
    IF Len(an.beats) < 2 THEN ts = 0 ELSE IsGapStd(1000 - ts)

\* C10: tempo_stability is exactly 0 with 0 or 1 detected beats, and that is a
\* feature record, not an error; with 2 or more beats it is 1 minus the
\* standard deviation of the consecutive inter-beat intervals.
C10_TempoStability ==
    /\ an.pc \in {"rms", "centroid", "dynamic_range", "chroma", "key"}
          => ExpectedStability(an.loc.tempo_stability)
    /\ (an.pc = "returned" /\ an.failed = "none")
          => /\ "error" \notin DOMAIN an.result
             /\ ExpectedStability(an.result.tempo_stability)

C10_Witness ==
    /\ an.pc = "returned" /\ an.failed = "none"
    /\ Len(an.beats) = 1
    /\ an.result.tempo_stability = 0
    /\ "error" \notin DOMAIN an.result

\* the 12 pitch-class labels, pitch class 0 = C first
PitchClassLabels == <<"C", "C#", "D", "D#", "E", "F", "F#", "G", "G#", "A", "A#", "B">>

\* C11: whenever analyze_audio returns a feature record, key is one of the 12
\* pitch-class labels, namely the label (counted from C at position 0) of a
\* position where the 12-element mean chroma profile is largest, and
\* key_confidence is the chroma value at that position and is >= 0.
C11_KeyIsArgMaxLabel ==
    (an.pc = "returned" /\ an.failed = "none") =>
        /\ an.result.key \in {PitchClassLabels[p] : p \in 1..12}
        /\ an.result.key_confidence >= 0
        /\ \E p \in 1..12 :
              /\ PitchClassLabels[p] = an.result.key
              /\ \A j \in 1..12 : an.chroma[j] <= an.chroma[p]
              /\ an.result.key_confidence = an.chroma[p]

C11_Witness ==
    /\ an.pc = "returned" /\ an.failed = "none"
    /\ an.chroma[10] = 1000 /\ an.chroma[1] = 300
    /\ an.result.key = "A"
    /\ an.result.key_confidence = 1000

(***************************************************************************)
(* Construction, failures and resources of a render (Spec)                 *)
(***************************************************************************)
\* C12: with audio that cannot be decoded, the constructor ends by the decode
\* error escaping to the caller: no instance, no feature precomputation and
\* no render follow.
C12_DecodeFailureEscapes ==
    ~src.decodable =>
        /\ pc \in {"new", "ctor_raised"}
        /\ pc = "ctor_raised" => exc = "DecodeError"
        /\ feat = NoFeatures
        /\ fpc = "idle" /\ probe = <<0, 0>> /\ emitted = <<>>
        /\ outfile = NoFile

C12_Witness ==
    /\ ~src.decodable
    /\ pc = "ctor_raised"
    /\ exc = "DecodeError"
    /\ feat = NoFeatures

\* a step in which the frame being generated is abandoned
FrameFailedStep == fpc \notin {"idle", "ret"} /\ fpc' = "idle"

\* C13: when generating a frame fails, the failure escapes build: the step
\* ends build with an exception, no frame is emitted for it, the frame is
\* neither skipped nor retried, and afterwards nothing more happens: no later
\* frame, no output path returned.
C13_FrameFailureAborts ==
    /\ [](pc = "raised" => exc # "none" /\ fpc = "idle" /\ ~outfile.written)
    /\ [][/\ FrameFailedStep =>
                /\ pc' = "raised" /\ exc' # "none"
                /\ emitted' = emitted /\ frameNo' = frameNo
          /\ pc = "raised" => UNCHANGED renderVars]_vars

C13_Witness ==
    /\ pc = "raised" /\ exc = "FrameError"
    /\ Len(emitted) = 2 /\ frameNo = 2
    /\ eng.duration = 1
    /\ ~outfile.written

\* C14: when build has finished, by returning or by raising, every file
\* handle it opened (source audio, output video/audio) has been closed.
C14_HandlesClosed ==
    pc \in {"done", "raised"} => handles = {}

\* C15: the audio track muxed into the output covers no more than duration
\* seconds of the source audio.
C15_AudioTrimmed ==
    pc \in {"write", "done"} =>
        outfile.audio_samples <= eng.duration * eng.audio.sr

Constructed == pc \in {"constructed", "probe", "audio", "write", "done", "raised"}

\* C18: after construction no step of a render changes the feature cache
\* (onset envelope, RMS envelope, spectrogram), the effect toggles, the
\* duration or the fps: they keep the values __init__ gave them.
C18_EngineImmutable ==
    /\ [](Constructed => feat = FeatureCache(eng.audio))
    /\ [][Constructed => (eng' = eng /\ feat' = feat)]_vars

C18_Witness ==
    /\ pc = "done"
    /\ eng.effects["pulse"] /\ eng.effects["vhs"]
    /\ eng.duration * eng.audio.sr > eng.audio.n
    /\ Len(emitted) = eng.duration * eng.fps
    /\ feat = FeatureCache(eng.audio)

\* every frame the stepwise make_frame hands to the encoder is the frame
\* MakeFrame describes
MakeFrameAgrees ==
    /\ \A i \in 1..Len(emitted) :
          LET f == MakeFrame(eng.effects, emitted[i].k, eng.fps, eng.audio)
          IN  ~f.raised /\ emitted[i].size = f.size /\ emitted[i].applied = f.applied
    /\ exc = "IndexError" => MakeFrame(eng.effects, frameNo, eng.fps, eng.audio).raised

\* C17: two renders that differ only in effects["spectrum"] emit the same
\* frames and end the same way: at every step both are at the same position,
\* have emitted identical frames and hold the same exception.
C17_SpectrumIsNoOp ==
    /\ tw.ea.effects["spectrum"] # tw.eb.effects["spectrum"]
    /\ \A x \in EffectNames \ {"spectrum"} : tw.ea.effects[x] = tw.eb.effects[x]
    /\ tw.a = tw.b

C17_Witness ==
    /\ tw.ea.effects["spectrum"] /\ ~tw.eb.effects["spectrum"]
    /\ tw.ea.effects["pulse"]
    /\ tw.a.pc = "done" /\ tw.b.pc = "done"
    /\ Len(tw.a.emitted) = 2 * DefaultFps
    /\ tw.a.emitted = tw.b.emitted

(***************************************************************************)
(* Request layer                                                           *)
(***************************************************************************)
HasEngine(t) == t.pc \in {"constructed", "building", "built"}

\* C16: every engine the request layer constructs has a duration that does
\* not exceed the length of its audio: duration * sr <= number of samples.
C16_DurationClamped ==
    \A i \in Requests :
        HasEngine(sv.tasks[i]) =>
            sv.tasks[i].engine.duration * SampleRate <= sv.tasks[i].req.audio_n

\* C19: two requests whose builds are both in progress never write the same
\* output path.
C19_NoOverlappingBuilds ==
    \A i, j \in Requests :
        (i # j /\ sv.tasks[i].pc = "building" /\ sv.tasks[j].pc = "building")
            => sv.tasks[i].engine.out_path # sv.tasks[j].engine.out_path

C19_Witness ==
    /\ sv.tasks[1].pc = "building" /\ sv.tasks[1].req.kind = "video"
    /\ sv.tasks[2].pc = "stages" /\ sv.tasks[2].parked
    /\ sv.tasks[1].req.title # sv.tasks[2].req.title
    /\ \A hex \in HexChoices :
          safe_slug(sv.tasks[2].req.title, DefaultMaxLen, hex) = sv.tasks[1].engine.out_path

\* C20: in a run of auto_chain with do_ai_video true, generate_visualizer is
\* not called and video_path stays None.
C20_VisualizerOnlyWithoutAiVideo ==
    (Backend(ac) /\ ac.req.do_ai_video) =>
        /\ \A n \in DOMAIN ac.calls : ac.calls[n] # "generate_visualizer"
        /\ ac.result.video_path = None

(***************************************************************************)
(* Runway polling                                                          *)
(***************************************************************************)
\* the status a JSON answer reports, read case-insensitively from "status"
\* or, when that is missing or empty, from "state"
Reported(r) ==
    Lower(IF r.status # <<>> /\ Len(r.status[1]) > 0 THEN r.status[1]
          ELSE IF r.state # <<>> THEN r.state[1] ELSE <<>>)
\* the URL a JSON answer carries: output.video when output is an object,
\* output_url otherwise
Carried(r) ==
    IF r.output.type = "dict" THEN r.output.video ELSE r.output_url

\* C21: poll_runway_job has returned only if the last answer was a JSON body
\* reporting succeeded/completed/finished and carrying a non-empty URL, and
\* the value returned is that URL; after an answer reporting
\* failed/error/canceled, or reporting finished without a URL, the call has
\* raised (it is neither returned nor polling again).
C21_ReturnsOnlyFinished ==
    /\ pr.pc = "returned" =>
          /\ pr.last.kind = "json"
          /\ Reported(pr.last) \in FinishedWords
          /\ Carried(pr.last) \in {VideoUrl, OutputUrl}
          /\ pr.ret = Carried(pr.last)
    /\ (/\ pr.last.kind = "json"
        /\ \/ Reported(pr.last) \in FailedWords
           \/ Reported(pr.last) \in FinishedWords /\ Carried(pr.last) \in {None, ""})
          => pr.pc = "raised" /\ pr.exc = "HTTPException(502)" /\ pr.ret = None

C21_Witness ==
    /\ pr.pc = "returned"
    /\ pr.last.status = <<>> /\ pr.last.state # <<>>
    /\ pr.last.output.type = "str" /\ pr.ret = OutputUrl

\* C22: every call of poll_runway_job eventually ends, by returning or by
\* raising.
C22_PollTerminates == <>(pr.pc \in {"returned", "raised"})

(***************************************************************************)
(* HTTP client lifecycle                                                   *)
(***************************************************************************)
\* C23: whatever the order of startup, shutdown and requests, a call of the
\* accessor made before any startup raised RuntimeError, and a call that
\* returned a client returned one that was open at that moment.
C23_ClientOnlyWhileOpen ==
    /\ (hc.clients = <<>> /\ hc.last.kind # "none") => hc.last.kind = "RuntimeError"
    /\ hc.last.kind = "returned" => hc.last.open

(***************************************************************************)
(* Slugs                                                                   *)
(***************************************************************************)
\* C24: for every string and every max_len >= 1, the value safe_slug returns
\* is non-empty, has at most max_len characters, all of them lower-case
\* letters, digits or "_", and neither starts nor ends with "_".
C24_SlugIsFileStem ==
    (sl.pc = "done" /\ sl.max_len >= 1) =>
        /\ sl.out # <<>>
        /\ Len(sl.out) <= sl.max_len
        /\ \A i \in DOMAIN sl.out :
              sl.out[i] \in Range(LowerCase) \cup Digits \cup {"_"}
        /\ sl.out[1] # "_"
        /\ sl.out[Len(sl.out)] # "_"

(***************************************************************************)
(* auto_chain: how a run ends                                              *)
(***************************************************************************)
\* C25: in either variant, a run of auto_chain that returned (no stage raised
\* to the client) has attempted exactly one insert of its row into `beats`,
\* and its response has status "success" and carries the accumulated result.
C25_InsertThenSuccess ==
    ac.pc = "returned" =>
        /\ ac.final_inserts = 1
        /\ ac.response.status = "success"
        /\ ac.response.result = ac.result

\* C26: in backend/main.py a failure of the DSP, AI-video or visualizer stage
\* leaves that stage's field None, does not stop the later stages (each is
\* called when its own condition holds), and does not reach the client.
Called(name) == \E n \in DOMAIN ac.calls : ac.calls[n] = name
C26_LateFailuresNonFatal ==
    Backend(ac) =>
        /\ "dsp" \in ac.failed => ac.result.dsp = None
        /\ "ai_video" \in ac.failed => ac.result.ai_video_path = None
        /\ "visualizer" \in ac.failed => ac.result.video_path = None
        /\ (ac.failed # {} /\ ac.pc \in {"visualizer", "end", "returned"} /\ ac.req.do_ai_video)
              => Called("create_ai_video_with_audio")
        /\ (/\ ac.failed # {} /\ ac.pc \in {"end", "returned"}
            /\ ac.req.do_visualizer
            /\ ac.result.image_path # None /\ ac.result.audio_paths # None)
              => Called("generate_visualizer")
        /\ ac.failed # {} => ac.pc # "raised"

====
